---- MODULE Spec2Model ----
(***************************************************************************)
(* PhongNews backend (src/server.js): the auth workflow                    *)
(* (register / approve / login / forgot) and the generic record API        *)
(* (list / create / update / delete) over a remote key-value store.        *)
(*                                                                         *)
(* The store keys are the state: `users` (list), `pending` (token->draft   *)
(* object) and `data_<table>` (lists).  Every handler is one action, the   *)
(* whole of its read-modify-write included.                                *)
(***************************************************************************)
EXTENDS Integers, Sequences, FiniteSets, TLC

VARIABLES
  users,    \* store key 'users': the list of active users
  pending,  \* store key 'pending': own properties of the token -> draft object
  data,     \* store keys 'data_<table>': table name -> list of records
  now,      \* the server clock, Date.now(), in milliseconds
  last,     \* the request handled by the latest step, with its response
  approvedTokens,  \* history: the tokens an approve has succeeded for
  inflight  \* the requests being handled step by step, with their locals

vars == <<users, pending, data, now, last, approvedTokens, inflight>>

-----------------------------------------------------------------------------
(* Bounds of the model.                                                    *)

MaxUsers == 2
MaxPending == 2
MaxRecords == 3
MaxSec == 1
MaxMs == 1
MaxRaceRecords == 2

-----------------------------------------------------------------------------
(* Values.  A JS string that the code inspects character by character      *)
(* (emails, ids) is a sequence of one-character strings; other strings are *)
(* opaque.  A JS object is a function from its own property names.         *)

EmptyObject == [f \in {} |-> 0]

\* Spread with the precedence reversed: the left object wins.
SpreadLeftWins(a, b) ==
  [f \in DOMAIN a \cup DOMAIN b |-> IF f \in DOMAIN a THEN a[f] ELSE b[f]]

\* {...a, ...b}: the own properties of a, overridden by those of b.
Spread(a, b) ==
  [f \in DOMAIN a \cup DOMAIN b |-> IF f \in DOMAIN b THEN b[f] ELSE a[f]]

\* const { password, ...rest } = u
safeUser(u) == [f \in DOMAIN u \ {"password"} |-> u[f]]

LowerChar(c) ==
  CASE c = "A" -> "a"
    [] c = "B" -> "b"
    [] OTHER -> c

toLowerCase(s) == [i \in DOMAIN s |-> LowerChar(s[i])]

-----------------------------------------------------------------------------
(* Credential utilities.                                                   *)

MsPerSec == 1000

\* bcrypt.hash(password, 10): a salted hash; the salt is part of the hash.
bcryptHash(password, salt) == [salt |-> salt, digest |-> <<salt, password>>]

\* bcrypt.compare(password, hash): re-hash with the hash's salt.
bcryptCompare(password, hash) == bcryptHash(password, hash.salt) = hash

\* jwt.sign({ email }, JWT_SECRET, { expiresIn: '7d' }): an HS256 token is a
\* function of the payload alone, and the payload is the email claim as
\* given plus the issue time in whole seconds (the expiry is derived).
jwtSign(email, t) == [email |-> email, iat |-> t \div MsPerSec]

\* A query-string token that is not a token the server issued.
RawToken(s) == [raw |-> s]

\* Names every plain object inherits from Object.prototype: pending[name]
\* is defined (and truthy) for them although `pending` has no such own key.
ObjectProtoKeys == {"constructor"}

-----------------------------------------------------------------------------
(* Inputs.                                                                 *)

Names == {"An"}
Emails == {<<"a">>, <<"A">>, <<"b">>}
Passwords == {"abc123", "hunter2"}
\* Math.random().toString(36).slice(2, 8): any short base-36 string, one a
\* user may have chosen as a password included.
TmpPasswords == {"abc123", "k3j9zq"}
Salts == {"s1"}

RegisterBody(name, email, password) ==
  [name |-> name, email |-> email, password |-> password]

\* Request bodies of register: every complete one, and one for each field
\* left out (an absent field and an empty string are both falsy).
RegisterBodies ==
  {RegisterBody(n, e, p) : n \in Names, e \in Emails, p \in Passwords}
    \cup {RegisterBody("", <<"a">>, "abc123"),
          RegisterBody("An", <<>>, "abc123"),
          RegisterBody("An", <<"a">>, "")}

LoginPasswords == Passwords \cup TmpPasswords

Seconds == 0 .. MaxSec

IssuedTokens == {[email |-> e, iat |-> s] : e \in Emails, s \in Seconds}
QueryTokens ==
  IssuedTokens \cup {RawToken(""), RawToken("bogus")}
               \cup {RawToken(k) : k \in ObjectProtoKeys}

-----------------------------------------------------------------------------
(* The users list and the pending object.                                  *)

\* u.email.toLowerCase() === email.toLowerCase(); u.email is undefined for
\* an entry without an email, and the call then throws a TypeError.
HasEmail(u) == "email" \in DOMAIN u

EmailMatches(u, email) ==
  HasEmail(u) /\ toLowerCase(u.email) = toLowerCase(email)

Min(S) == CHOOSE m \in S : \A n \in S : m <= n

\* Index of the first entry the predicate of users.find() accepts, 0 if none.
FirstMatch(list, email) ==
  LET hits == {i \in DOMAIN list : EmailMatches(list[i], email)}
  IN IF hits = {} THEN 0 ELSE Min(hits)

\* users.find() throws when it reaches an entry without an email before it
\* has found a match.
FindThrows(list, email) ==
  LET bad == {i \in DOMAIN list : ~HasEmail(list[i])}
      hit == FirstMatch(list, email)
  IN bad # {} /\ (hit = 0 \/ Min(bad) < hit)

\* const draft = pending[token]; if (!draft) ...
HasDraft(obj, token) ==
  \/ token \in DOMAIN obj
  \/ \E k \in ObjectProtoKeys : token = RawToken(k)

\* pending[token]: an own property, or else what Object.prototype gives
\* (a function or object without own enumerable properties).
GetDraft(obj, token) ==
  IF token \in DOMAIN obj THEN obj[token] ELSE EmptyObject

\* An assignment that leaves the object as it was.
SetDraftLost(obj, token, draft) == obj

\* pending[token] = userDraft
SetDraft(obj, token, draft) ==
  [t \in DOMAIN obj \cup {token} |-> IF t = token THEN draft ELSE obj[t]]

\* delete pending[token]
DeleteDraft(obj, token) == [t \in DOMAIN obj \ {token} |-> obj[t]]

-----------------------------------------------------------------------------
(* Responses.                                                              *)

NoMail == EmptyObject

\* An async handler without try/catch whose promise rejects: the framework
\* either never answers (status 0 here) or answers 500 through its default
\* error handler, depending on the framework's major version.
UnhandledStatus == {0, 500}

\* `before` is the store as the handler read it.
Response(op, req, status, body, mail) ==
  [op |-> op, req |-> req, status |-> status, body |-> body, mail |-> mail,
   before |-> [users |-> users, pending |-> pending, data |-> data]]

NoRequest ==
  [op |-> "none", req |-> EmptyObject, status |-> 0, body |-> EmptyObject,
   mail |-> NoMail, before |-> EmptyObject]

\* Requests handled concurrently: each runs from one await to the next in
\* one step.  A slot holds a request's position (pc), what it read from the
\* store and the value it is about to write; a finished request stays in
\* its slot, with its status, until the slot takes the next request.
Procs == {"p1", "p2"}

Idle ==
  [op |-> "none", pc |-> "idle", req |-> EmptyObject, status |-> 0,
   read |-> EmptyObject, local |-> EmptyObject, stale |-> FALSE,
   error |-> ""]

Free(p) == inflight[p].pc \in {"idle", "done"}

Running(p, op, pc) == inflight[p].op = op /\ inflight[p].pc = pc

Answered(op, req, status) ==
  [op |-> op, pc |-> "done", req |-> req, status |-> status,
   read |-> EmptyObject, local |-> EmptyObject, stale |-> FALSE,
   error |-> ""]

\* A request ended by an exception; `error` names the call that threw, as
\* e.message does in the body of register's 500.
Failed(op, req, status, error) ==
  [Answered(op, req, status) EXCEPT !.error = error]

-----------------------------------------------------------------------------
(* Auth workflow.                                                          *)

Init ==
  /\ users = <<>>
  /\ pending = EmptyObject
  /\ data = EmptyObject
  /\ now = 0
  /\ last = NoRequest
  /\ approvedTokens = {}
  /\ inflight = [p \in Procs |-> Idle]

\* The clock advances by a millisecond, staying within the second.
TickMs ==
  /\ now % MsPerSec < MaxMs
  /\ now' = now + 1
  /\ last' = NoRequest
  /\ UNCHANGED <<users, pending, data, approvedTokens, inflight>>

\* The clock advances by a second.
TickSec ==
  /\ now \div MsPerSec < MaxSec
  /\ now' = now + MsPerSec
  /\ last' = NoRequest
  /\ UNCHANGED <<users, pending, data, approvedTokens, inflight>>

\* !name || !email || !password
MissingField(body) == body.name = "" \/ body.email = <<>> \/ body.password = ""

\* Some entry of the list has this email, ignoring case.
EmailTaken(list, email) == \E i \in DOMAIN list : EmailMatches(list[i], email)

\* POST /api/auth/register
Register ==
  \E req \in RegisterBodies, salt \in Salts, mailOk \in BOOLEAN :
    LET name == req.name
        email == req.email
        password == req.password
        userDraft == [name |-> name, email |-> email,
                      password |-> bcryptHash(password, salt),
                      createdAt |-> now, approved |-> FALSE]
        token == jwtSign(email, now)
        mail == [to |-> "admin", token |-> token]
    IN
    /\ IF name = "" \/ email = <<>> \/ password = ""
       THEN /\ last' = Response("register", req, 400, EmptyObject, NoMail)
            /\ UNCHANGED pending
       ELSE IF FindThrows(users, email)
       THEN /\ last' = Response("register", req, 500, EmptyObject, NoMail)
            /\ UNCHANGED pending
       ELSE IF FirstMatch(users, email) # 0
       THEN /\ last' = Response("register", req, 409, EmptyObject, NoMail)
            /\ UNCHANGED pending
       ELSE /\ pending' = SetDraft(pending, token, userDraft)
            /\ Cardinality(DOMAIN pending') <= MaxPending
            /\ last' = IF mailOk
                       THEN Response("register", req, 200, EmptyObject, mail)
                       ELSE Response("register", req, 500, EmptyObject, NoMail)
    /\ UNCHANGED <<users, data, now, approvedTokens, inflight>>

\* The status approve answers with for a pending object as read.
ApproveStatus(obj, token) ==
  IF token = RawToken("") THEN 400
  ELSE IF ~HasDraft(obj, token) THEN 404
  ELSE 200

\* GET /api/auth/approve
Approve ==
  \E token \in QueryTokens :
    LET req == [token |-> token]
        draft == GetDraft(pending, token)
        st == ApproveStatus(pending, token)
    IN
    /\ last' = Response("approve", req, st, EmptyObject, NoMail)
    /\ IF st # 200
       THEN UNCHANGED <<users, pending, approvedTokens>>
       ELSE /\ Len(users) < MaxUsers
            /\ users' = Append(users, Spread(draft, [approved |-> TRUE]))
            /\ pending' = DeleteDraft(pending, token)
            /\ approvedTokens' = approvedTokens \cup {token}
    /\ UNCHANGED <<data, now, inflight>>

\* The status login answers with for a users list as read from the store:
\* 404, 403, 401 or 200, or what an unhandled rejection gives when
\* users.find() throws.
LoginStatuses(list, email, password) ==
  LET i == FirstMatch(list, email)
  IN IF FindThrows(list, email) THEN UnhandledStatus
     ELSE IF i = 0 THEN {404}
     ELSE IF ~list[i].approved THEN {403}
     ELSE IF ~bcryptCompare(password, list[i].password) THEN {401}
     ELSE {200}

\* res.json({ token, user: safeUser(user) })
LoginBody(list, email, t) ==
  LET user == list[FirstMatch(list, email)]
  IN [token |-> jwtSign(user.email, t), user |-> safeUser(user)]

\* POST /api/auth/login
Login ==
  \E email \in Emails, password \in LoginPasswords :
    LET req == [email |-> email, password |-> password]
    IN
    /\ \E st \in LoginStatuses(users, email, password) :
         last' = Response("login", req, st,
                          IF st = 200 THEN LoginBody(users, email, now)
                          ELSE EmptyObject, NoMail)
    /\ UNCHANGED <<users, pending, data, now, approvedTokens, inflight>>

\* POST /api/auth/forgot
Forgot ==
  \E email \in Emails, tmp \in TmpPasswords, salt \in Salts,
     mailOk \in BOOLEAN :
    LET req == [email |-> email]
        i == FirstMatch(users, email)
    IN
    /\ IF FindThrows(users, email)
       THEN /\ \E st \in UnhandledStatus :
                 last' = Response("forgot", req, st, EmptyObject, NoMail)
            /\ UNCHANGED users
       ELSE IF i = 0
       THEN /\ last' = Response("forgot", req, 404, EmptyObject, NoMail)
            /\ UNCHANGED users
       ELSE /\ users' = [users EXCEPT ![i].password = bcryptHash(tmp, salt)]
            /\ IF mailOk
               THEN last' = Response("forgot", req, 200, EmptyObject,
                                     [to |-> email, tmp |-> tmp])
               ELSE \E st \in UnhandledStatus :
                      last' = Response("forgot", req, st, EmptyObject, NoMail)
    /\ UNCHANGED <<pending, data, now, approvedTokens, inflight>>

NextAuth == Register \/ Approve \/ Login \/ Forgot \/ TickSec

SpecAuth == Init /\ [][NextAuth]_vars

-----------------------------------------------------------------------------
(* Generic record API.                                                     *)

allowedTables == {"rooms", "guests", "bookings", "invoices", "settings"}

\* JSON values of a record's fields: numbers and strings.
Num(n) == [num |-> n]
Str(s) == [str |-> s]

Digits == <<"0", "1", "2", "3", "4", "5", "6", "7", "8", "9">>

RECURSIVE NumToString(_)
NumToString(n) ==
  IF n < 10 THEN <<Digits[n + 1]>>
  ELSE NumToString(n \div 10) \o <<Digits[(n % 10) + 1]>>

\* String(v)
String(v) == IF "num" \in DOMAIN v THEN NumToString(v.num) ELSE v.str

\* String(i.id); a record without an id gives "undefined".
IdString(r) == IF "id" \in DOMAIN r THEN String(r.id) ELSE <<"undefined">>

\* (await redis.get(`data_${table}`)) || []
StoreGet(table) == IF table \in DOMAIN data THEN data[table] ELSE <<>>

\* redis.set(`data_${table}`, list), as the store after it
StoreSet(table, list) ==
  [t \in DOMAIN data \cup {table} |-> IF t = table THEN list ELSE data[t]]

\* findIndex picking the last match instead of the first.
findLastIndex(list, id) ==
  LET hits == {i \in DOMAIN list : IdString(list[i]) = id}
  IN IF hits = {} THEN 0 ELSE CHOOSE m \in hits : \A n \in hits : n <= m

\* list.findIndex(i => String(i.id) === String(id)), 1-based, 0 for -1
findIndex(list, id) ==
  LET hits == {i \in DOMAIN list : IdString(list[i]) = id}
  IN IF hits = {} THEN 0 ELSE Min(hits)

\* A filter that drops the first match only.
filterOutFirst(list, id) ==
  LET hits == {i \in DOMAIN list : IdString(list[i]) = id}
  IN IF hits = {} THEN list
     ELSE LET k == CHOOSE m \in hits : \A n \in hits : m <= n
          IN SubSeq(list, 1, k - 1) \o SubSeq(list, k + 1, Len(list))

\* list.filter(i => String(i.id) !== String(id))
RECURSIVE filterOut(_, _)
filterOut(list, id) ==
  IF list = <<>> THEN <<>>
  ELSE IF IdString(Head(list)) = id THEN filterOut(Tail(list), id)
  ELSE <<Head(list)>> \o filterOut(Tail(list), id)

Tables == {"rooms", "unknown"}
Bodies ==
  {EmptyObject, [number |-> Num(101)], [number |-> Num(101), id |-> Str(<<"7">>)]}
Patches ==
  {EmptyObject, [number |-> Num(102)], [id |-> Str(<<"1">>)]}
PathIds == {NumToString(n) : n \in 0 .. MaxMs}

\* GET /api/data/:table
List ==
  \E table \in Tables :
    LET req == [table |-> table]
    IN
    /\ IF table \notin allowedTables
       THEN last' = Response("list", req, 400, EmptyObject, NoMail)
       ELSE last' = Response("list", req, 200, StoreGet(table), NoMail)
    /\ UNCHANGED <<users, pending, data, now, approvedTokens, inflight>>

\* POST /api/data/:table
Create ==
  \E table \in Tables, item \in Bodies :
    LET req == [table |-> table, body |-> item]
        list == StoreGet(table)
    IN
    /\ IF table \notin allowedTables
       THEN /\ last' = Response("create", req, 400, EmptyObject, NoMail)
            /\ UNCHANGED data
       ELSE /\ Len(list) < MaxRecords
            /\ data' = StoreSet(table, Append(list, Spread(item, [id |-> Num(now)])))
            /\ last' = Response("create", req, 200, [ok |-> TRUE], NoMail)
    /\ UNCHANGED <<users, pending, now, approvedTokens, inflight>>

\* PUT /api/data/:table/:id
Update ==
  \E table \in Tables, id \in PathIds, patch \in Patches :
    LET req == [table |-> table, id |-> id, body |-> patch]
        list == StoreGet(table)
        idx == findIndex(list, id)
    IN
    /\ IF idx = 0
       THEN /\ last' = Response("update", req, 404, EmptyObject, NoMail)
            /\ UNCHANGED data
       ELSE /\ data' = StoreSet(table, [list EXCEPT ![idx] = Spread(list[idx], patch)])
            /\ last' = Response("update", req, 200, [ok |-> TRUE], NoMail)
    /\ UNCHANGED <<users, pending, now, approvedTokens, inflight>>

\* DELETE /api/data/:table/:id
Delete ==
  \E table \in Tables, id \in PathIds :
    LET req == [table |-> table, id |-> id]
    IN
    /\ data' = StoreSet(table, filterOut(StoreGet(table), id))
    /\ last' = Response("delete", req, 200, [ok |-> TRUE], NoMail)
    /\ UNCHANGED <<users, pending, now, approvedTokens, inflight>>

NextData == List \/ Create \/ Update \/ Delete \/ TickMs

SpecData == Init /\ [][NextData]_vars

-----------------------------------------------------------------------------
(* The record API with requests overlapping: a write handler reads the     *)
(* collection in one step and writes it back in a later one.               *)

\* Inputs of the overlapping requests.
RaceBodies == {EmptyObject, [number |-> Num(101)]}
RacePatches == {[number |-> Num(102)]}
RacePathIds == {NumToString(0)}

\* A write that appends to the collection as it is now.
WriteMerged(p) ==
  LET r == inflight[p]
      cur == StoreGet(r.req.table)
  IN IF r.op = "create" THEN Append(cur, r.local[Len(r.local)]) ELSE r.local

\* await redis.set(`data_${table}`, list): the list the request computed
\* from what it read.
WriteList(p) == inflight[p].local

\* POST /api/data/:table, up to the read of the collection
CreateStart ==
  \E p \in Procs, table \in Tables, item \in RaceBodies :
    LET req == [table |-> table, body |-> item]
        list == StoreGet(table)
    IN
    /\ Free(p)
    /\ IF table \notin allowedTables
       THEN inflight' = [inflight EXCEPT ![p] = Answered("create", req, 400)]
       ELSE /\ Len(list) < MaxRaceRecords
            /\ inflight' = [inflight EXCEPT ![p] =
                 [op |-> "create", pc |-> "write", req |-> req, status |-> 0,
                  read |-> list, stale |-> FALSE, error |-> "",
                  local |-> Append(list, Spread(item, [id |-> Num(now)]))]]
    /\ UNCHANGED <<users, pending, data, now, last, approvedTokens>>

\* PUT /api/data/:table/:id, up to the read of the collection
UpdateStart ==
  \E p \in Procs, table \in Tables, id \in RacePathIds, patch \in RacePatches :
    LET req == [table |-> table, id |-> id, body |-> patch]
        list == StoreGet(table)
        idx == findIndex(list, id)
    IN
    /\ Free(p)
    /\ IF idx = 0
       THEN inflight' = [inflight EXCEPT ![p] = Answered("update", req, 404)]
       ELSE inflight' = [inflight EXCEPT ![p] =
              [op |-> "update", pc |-> "write", req |-> req, status |-> 0,
               read |-> list, stale |-> FALSE, error |-> "",
               local |-> [list EXCEPT ![idx] = Spread(list[idx], patch)]]]
    /\ UNCHANGED <<users, pending, data, now, last, approvedTokens>>

\* DELETE /api/data/:table/:id, up to the read of the collection
DeleteStart ==
  \E p \in Procs, table \in Tables, id \in RacePathIds :
    LET req == [table |-> table, id |-> id]
        list == StoreGet(table)
    IN
    /\ Free(p)
    /\ inflight' = [inflight EXCEPT ![p] =
         [op |-> "delete", pc |-> "write", req |-> req, status |-> 0,
          read |-> list, stale |-> FALSE, error |-> "", local |-> filterOut(list, id)]]
    /\ UNCHANGED <<users, pending, data, now, last, approvedTokens>>

\* The redis.set of create, update and delete, and the {ok:true} answer.
\* `stale` records that the collection had changed since the request read it.
DataWrite ==
  \E p \in Procs :
    /\ inflight[p].op \in {"create", "update", "delete"}
    /\ inflight[p].pc = "write"
    /\ data' = StoreSet(inflight[p].req.table, WriteList(p))
    /\ inflight' = [inflight EXCEPT ![p] =
         [Answered(inflight[p].op, inflight[p].req, 200) EXCEPT
            !.stale = (StoreGet(inflight[p].req.table) # inflight[p].read)]]
    /\ UNCHANGED <<users, pending, now, last, approvedTokens>>

NextDataRace == CreateStart \/ UpdateStart \/ DeleteStart \/ DataWrite

SpecDataRace == Init /\ [][NextDataRace]_vars

-----------------------------------------------------------------------------
(* Overlapping auth requests: each handler runs from one await to the next *)
(* in one step.                                                            *)

MaxRaceUsers == 2

RaceEmails == {<<"a">>, <<"b">>}
RaceRegisterBodies ==
  {RegisterBody("An", e, "abc123") : e \in RaceEmails}
    \cup {RegisterBody("", <<"a">>, "abc123")}
RaceTokens ==
  {jwtSign(e, 0) : e \in RaceEmails} \cup {RawToken("")}
RaceLoginPasswords == {"abc123"}
RaceTmpPasswords == {"k3j9zq"}
\* Emails of overlapping login and forgot requests.
RaceLoginEmails == {<<"a">>}

\* A push that leaves out a user the list already holds.
PushUserOnce(list, draft) ==
  LET user == Spread(draft, [approved |-> TRUE])
  IN IF \E i \in DOMAIN list : list[i] = user THEN list ELSE Append(list, user)

\* users.push({ ...draft, approved: true })
PushUser(list, draft) == Append(list, Spread(draft, [approved |-> TRUE]))

\* A request at an await, holding what it read and what it will write.
AtAwait(op, pc, req, read, local) ==
  [op |-> op, pc |-> pc, req |-> req, status |-> 0,
   read |-> read, local |-> local, stale |-> FALSE, error |-> ""]

\* register up to the answer of readUsers and the search in it.
RegisterStart ==
  \E p \in Procs, req \in RaceRegisterBodies :
    /\ Free(p)
    /\ inflight' = [inflight EXCEPT ![p] =
         IF MissingField(req) THEN Answered("register", req, 400)
         ELSE IF FindThrows(users, req.email)
         THEN Answered("register", req, 500)
         ELSE IF FirstMatch(users, req.email) # 0
         THEN Answered("register", req, 409)
         ELSE AtAwait("register", "readPending", req, EmptyObject, EmptyObject)]
    /\ UNCHANGED <<users, pending, data, now, last, approvedTokens>>

\* register from the hash to pending[token] = userDraft on the object read.
RegisterReadPending ==
  \E p \in Procs, salt \in Salts :
    LET req == inflight[p].req
        userDraft == [name |-> req.name, email |-> req.email,
                      password |-> bcryptHash(req.password, salt),
                      createdAt |-> now, approved |-> FALSE]
        token == jwtSign(req.email, now)
    IN
    /\ Running(p, "register", "readPending")
    /\ inflight' = [inflight EXCEPT ![p] =
         AtAwait("register", "savePending", req, EmptyObject,
                 SetDraft(pending, token, userDraft))]
    /\ UNCHANGED <<users, pending, data, now, last, approvedTokens>>

\* await savePending(pending)
RegisterSavePending ==
  \E p \in Procs :
    /\ Running(p, "register", "savePending")
    /\ pending' = inflight[p].local
    /\ inflight' = [inflight EXCEPT ![p] =
         AtAwait("register", "sendMail", inflight[p].req,
                 EmptyObject, EmptyObject)]
    /\ UNCHANGED <<users, data, now, last, approvedTokens>>

\* await sendMail(...) and the answer.
RegisterSendMail ==
  \E p \in Procs, mailOk \in BOOLEAN :
    /\ Running(p, "register", "sendMail")
    /\ inflight' = [inflight EXCEPT ![p] =
         IF mailOk THEN Answered("register", inflight[p].req, 200)
         ELSE Failed("register", inflight[p].req, 500, "sendMail")]
    /\ UNCHANGED <<users, pending, data, now, last, approvedTokens>>

\* approve up to the answer of readPending and the lookup of the token.
ApproveStart ==
  \E p \in Procs, token \in RaceTokens :
    LET req == [token |-> token]
        st == ApproveStatus(pending, token)
    IN
    /\ Free(p)
    /\ inflight' = [inflight EXCEPT ![p] =
         IF st # 200 THEN Answered("approve", req, st)
         ELSE AtAwait("approve", "readUsers", req, pending, EmptyObject)]
    /\ UNCHANGED <<users, pending, data, now, last, approvedTokens>>

\* const users = await readUsers(); users.push(...)
ApproveReadUsers ==
  \E p \in Procs :
    LET r == inflight[p]
    IN
    /\ Running(p, "approve", "readUsers")
    /\ Len(users) < MaxRaceUsers
    /\ inflight' = [inflight EXCEPT ![p] =
         AtAwait("approve", "saveUsers", r.req, r.read,
                 PushUser(users, GetDraft(r.read, r.req.token)))]
    /\ UNCHANGED <<users, pending, data, now, last, approvedTokens>>

\* await saveUsers(users)
ApproveSaveUsers ==
  \E p \in Procs :
    LET r == inflight[p]
    IN
    /\ Running(p, "approve", "saveUsers")
    /\ users' = r.local
    /\ approvedTokens' = approvedTokens \cup {r.req.token}
    /\ inflight' = [inflight EXCEPT ![p] =
         AtAwait("approve", "savePending", r.req, r.read, EmptyObject)]
    /\ UNCHANGED <<pending, data, now, last>>

\* delete pending[token]; await savePending(pending); the answer.
ApproveSavePending ==
  \E p \in Procs :
    LET r == inflight[p]
    IN
    /\ Running(p, "approve", "savePending")
    /\ pending' = DeleteDraft(r.read, r.req.token)
    /\ inflight' = [inflight EXCEPT ![p] = Answered("approve", r.req, 200)]
    /\ UNCHANGED <<users, data, now, last, approvedTokens>>

\* login: the store is read once and not written.
LoginRun ==
  \E p \in Procs, email \in RaceLoginEmails, password \in RaceLoginPasswords :
    /\ Free(p)
    /\ \E st \in LoginStatuses(users, email, password) :
         inflight' = [inflight EXCEPT ![p] =
           Answered("login", [email |-> email, password |-> password], st)]
    /\ UNCHANGED <<users, pending, data, now, last, approvedTokens>>

\* forgot up to the new hash set on the user found in the list read.
ForgotStart ==
  \E p \in Procs, email \in RaceLoginEmails, tmp \in RaceTmpPasswords,
     salt \in Salts :
    LET req == [email |-> email]
        i == FirstMatch(users, email)
    IN
    /\ Free(p)
    /\ IF FindThrows(users, email)
       THEN \E st \in UnhandledStatus :
              inflight' = [inflight EXCEPT ![p] = Answered("forgot", req, st)]
       ELSE inflight' = [inflight EXCEPT ![p] =
              IF i = 0 THEN Answered("forgot", req, 404)
              ELSE AtAwait("forgot", "saveUsers", req, EmptyObject,
                     [users EXCEPT ![i].password = bcryptHash(tmp, salt)])]
    /\ UNCHANGED <<users, pending, data, now, last, approvedTokens>>

\* await saveUsers(users)
ForgotSaveUsers ==
  \E p \in Procs :
    /\ Running(p, "forgot", "saveUsers")
    /\ users' = inflight[p].local
    /\ inflight' = [inflight EXCEPT ![p] =
         AtAwait("forgot", "sendMail", inflight[p].req,
                 EmptyObject, EmptyObject)]
    /\ UNCHANGED <<pending, data, now, last, approvedTokens>>

\* await sendMail(...) and the answer; a failed mail is not caught.
ForgotSendMail ==
  \E p \in Procs, mailOk \in BOOLEAN :
    /\ Running(p, "forgot", "sendMail")
    /\ \E st \in (IF mailOk THEN {200} ELSE UnhandledStatus) :
         inflight' = [inflight EXCEPT ![p] =
           Answered("forgot", inflight[p].req, st)]
    /\ UNCHANGED <<users, pending, data, now, last, approvedTokens>>

\* The store call a request awaits is rejected: the handler goes no further.
\* register answers 500 from its catch block, the others have none.
Reject ==
  \E p \in Procs :
    LET r == inflight[p]
    IN
    /\ r.op \in {"register", "approve", "forgot"}
    /\ r.pc \in {"readPending", "savePending", "readUsers", "saveUsers"}
    /\ \E st \in (IF r.op = "register" THEN {500} ELSE UnhandledStatus) :
         inflight' = [inflight EXCEPT ![p] = Failed(r.op, r.req, st, "redis")]
    /\ UNCHANGED <<users, pending, data, now, last, approvedTokens>>

NextAuthRace ==
  \/ RegisterStart \/ RegisterReadPending \/ RegisterSavePending
  \/ RegisterSendMail
  \/ ApproveStart \/ ApproveReadUsers \/ ApproveSaveUsers
  \/ ApproveSavePending
  \/ LoginRun
  \/ ForgotStart \/ ForgotSaveUsers \/ ForgotSendMail
  \/ Reject

SpecAuthRace == Init /\ [][NextAuthRace]_vars

Next == NextAuth \/ NextData \/ NextDataRace \/ NextAuthRace

Spec == Init /\ [][Next]_vars

-----------------------------------------------------------------------------
(* Properties of the auth workflow, checked under SpecAuth.                *)

\* A register request with all three fields, whose email matched no user
\* of the list it read.
FreshRegister(r) ==
  /\ r.op = "register"
  /\ r.req.name # "" /\ r.req.email # <<>> /\ r.req.password # ""
  /\ \A i \in DOMAIN r.before.users : ~EmailMatches(r.before.users[i], r.req.email)

\* The passwords that were given when a draft or user with this hash was
\* stored.
PasswordsOf(hash) == {pw \in LoginPasswords : bcryptCompare(pw, hash)}

\* C1: a register request with non-empty fields and an email matching no
\* active user adds exactly one entry, with approved=false, to the pending
\* mapping and none to the users list; and while a draft's token has not
\* been approved, the users list holds no user with the draft's email.
C1_RegisterAddsOneDraft ==
  /\ FreshRegister(last) =>
       /\ Cardinality(DOMAIN pending) = Cardinality(DOMAIN last.before.pending) + 1
       /\ \A t \in DOMAIN pending \ DOMAIN last.before.pending :
            pending[t].approved = FALSE
       /\ users = last.before.users
  /\ \A t \in DOMAIN pending :
       \A i \in DOMAIN users : ~EmailMatches(users[i], pending[t].email)

\* C2: a successful approve of a pending token appends exactly the stored
\* draft with approved=true, removes exactly that token, leaves every other
\* user and draft unchanged, and afterwards login with the registered email
\* and password answers 200.
C2_ApprovePromotesAndLoginSucceeds ==
  (/\ last.op = "approve" /\ last.status = 200
   /\ last.req.token \in DOMAIN last.before.pending) =>
    LET t == last.req.token
        draft == last.before.pending[t]
    IN /\ Len(users) = Len(last.before.users) + 1
       /\ \A i \in DOMAIN last.before.users : users[i] = last.before.users[i]
       /\ users[Len(users)] = [draft EXCEPT !.approved = TRUE]
       /\ DOMAIN pending = DOMAIN last.before.pending \ {t}
       /\ \A u \in DOMAIN pending : pending[u] = last.before.pending[u]
       /\ \A pw \in PasswordsOf(draft.password) :
            LoginStatuses(users, draft.email, pw) = {200}

\* C3: once an approve has succeeded for a token, every later approve with
\* that token answers 404, and no user is present twice.
C3_ApproveIdempotentByAbsence ==
  /\ \A t \in approvedTokens : ApproveStatus(pending, t) = 404
  /\ \A i, j \in DOMAIN users : i # j => users[i] # users[j]

\* C4: for every registered user who has not been approved yet, login with
\* that user's email answers 403, whatever the password.
C4_UnapprovedLoginForbidden ==
  \A t \in DOMAIN pending :
    \A pw \in LoginPasswords :
      LoginStatuses(users, pending[t].email, pw) = {403}

\* C5: for every approved user, login with that user's email, in any case,
\* answers 401 exactly when the password does not match the stored hash,
\* and 200 otherwise, with a token and the user record without its
\* password; login never writes to the store.
C5_ApprovedLoginChecksPassword ==
  /\ \A i \in DOMAIN users :
       (HasEmail(users[i]) /\ users[i].approved) =>
         \A e \in Emails, pw \in LoginPasswords :
           toLowerCase(e) = toLowerCase(users[i].email) =>
             LoginStatuses(users, e, pw) =
               IF bcryptCompare(pw, users[i].password) THEN {200} ELSE {401}
  /\ last.op = "login" =>
       /\ users = last.before.users /\ pending = last.before.pending
       /\ last.status = 200 =>
            /\ "token" \in DOMAIN last.body
            /\ "password" \notin DOMAIN last.body.user

\* C6: no two entries of the users list have emails equal ignoring case.
C6_EmailsUnique ==
  \A i, j \in DOMAIN users :
    (i # j /\ HasEmail(users[i]) /\ HasEmail(users[j])) =>
      toLowerCase(users[i].email) # toLowerCase(users[j].email)

-----------------------------------------------------------------------------
(* Properties of the record API, checked under SpecData.                   *)

IsRecordOp(r) == r.op \in {"list", "create", "update", "delete"}

\* The collection of a table as the store holds it after the step.
StoredAfter(table) == IF table \in DOMAIN data' THEN data'[table] ELSE <<>>

OtherTablesKept(table) ==
  /\ DOMAIN data \ {table} = DOMAIN data' \ {table}
  /\ \A t \in DOMAIN data \ {table} : data'[t] = data[t]

\* C7: every record operation on a table outside the whitelist
\* {rooms, guests, bookings, invoices, settings} answers 400, and the store
\* never holds a key data_<table> for such a table.
C7_WhitelistOnEveryOperation ==
  /\ IsRecordOp(last) /\ last.req.table \notin allowedTables => last.status = 400
  /\ \A t \in DOMAIN data : t \in allowedTables

\* C8: create on a whitelisted table appends exactly one record at the end,
\* equal to the body with its id set to the current millisecond timestamp
\* (an id in the body is overwritten), and keeps the earlier records in
\* order; list answers the stored collection verbatim, the empty sequence
\* for a table never written.
C8_CreateAppendsListReturns ==
  [][/\ last'.op = "create" /\ last'.req.table \in allowedTables =>
          LET t == last'.req.table
              X == last'.req.body
              old == IF t \in DOMAIN data THEN data[t] ELSE <<>>
              new == StoredAfter(t)
          IN /\ last'.status = 200
             /\ last'.body = [ok |-> TRUE]
             /\ Len(new) = Len(old) + 1
             /\ \A i \in 1 .. Len(old) : new[i] = old[i]
             /\ DOMAIN new[Len(new)] = DOMAIN X \cup {"id"}
             /\ new[Len(new)].id = Num(now)
             /\ \A f \in DOMAIN X \ {"id"} : new[Len(new)][f] = X[f]
             /\ OtherTablesKept(t)
     /\ last'.op = "list" /\ last'.req.table \in allowedTables =>
          LET t == last'.req.table
          IN /\ last'.status = 200
             /\ t \in DOMAIN data => last'.body = data[t]
             /\ t \notin DOMAIN data => last'.body = <<>>
             /\ data' = data
             /\ (last.op = "create" /\ last.status = 200 /\ last.req.table = t) =>
                  \E i \in DOMAIN last'.body :
                    /\ DOMAIN last'.body[i] = DOMAIN last.req.body \cup {"id"}
                    /\ last'.body[i].id = Num(now)
                    /\ \A f \in DOMAIN last.req.body \ {"id"} :
                         last'.body[i][f] = last.req.body[f]
    ]_vars

\* C8 witness: a create whose body carried an id was appended after an
\* earlier record, with the id replaced by the timestamp.
C8_Witness ==
  /\ last.op = "create" /\ last.status = 200
  /\ "id" \in DOMAIN last.req.body
  /\ Len(data[last.req.table]) >= 2
  /\ data[last.req.table][Len(data[last.req.table])].id = Num(now)
  /\ last.req.body.id # Num(now)

\* C9: update answers 404 and leaves the collection unchanged when no
\* record's id stringifies to the path id; otherwise it changes only the
\* first matching record, which takes the patch's value for every field of
\* the patch and keeps its other fields, and every other record, the
\* length and the order stay as they were.
C9_UpdateMergesFirstMatch ==
  [][last'.op = "update" =>
       LET t == last'.req.table
           id == last'.req.id
           patch == last'.req.body
           old == IF t \in DOMAIN data THEN data[t] ELSE <<>>
           new == StoredAfter(t)
           hits == {i \in DOMAIN old : String(old[i].id) = id}
       IN IF hits = {}
          THEN last'.status = 404 /\ data' = data
          ELSE LET k == CHOOSE m \in hits : \A n \in hits : m <= n
               IN /\ last'.status = 200
                  /\ Len(new) = Len(old)
                  /\ \A i \in DOMAIN old \ {k} : new[i] = old[i]
                  /\ DOMAIN new[k] = DOMAIN old[k] \cup DOMAIN patch
                  /\ \A f \in DOMAIN patch : new[k][f] = patch[f]
                  /\ \A f \in DOMAIN old[k] \ DOMAIN patch : new[k][f] = old[k][f]
                  /\ OtherTablesKept(t)
    ]_vars

\* C9 witness: an update patched the first of two records sharing the path
\* id and left the second as it was.
C9_Witness ==
  /\ last.op = "update" /\ last.status = 200
  /\ last.req.body = [number |-> Num(102)]
  /\ last.req.table \in DOMAIN last.before.data
  /\ LET old == last.before.data[last.req.table]
         new == data[last.req.table]
     IN \E i, j \in DOMAIN old :
          /\ i < j
          /\ String(old[i].id) = last.req.id
          /\ String(old[j].id) = last.req.id
          /\ old[i] # new[i]
          /\ new[i].number = Num(102)
          /\ old[j] = new[j]
          /\ "number" \notin DOMAIN new[j]

\* C10: delete always answers {ok:true}; afterwards no record's id
\* stringifies to the path id, the other records remain in their relative
\* order, and when nothing matched the contents are unchanged.
C10_DeleteRemovesAllMatches ==
  [][last'.op = "delete" =>
       LET t == last'.req.table
           id == last'.req.id
           old == IF t \in DOMAIN data THEN data[t] ELSE <<>>
           new == StoredAfter(t)
           Keeps(r) == String(r.id) # id
       IN /\ last'.status = 200
          /\ last'.body = [ok |-> TRUE]
          /\ \A i \in DOMAIN new : String(new[i].id) # id
          /\ new = SelectSeq(old, Keeps)
          /\ (\A i \in DOMAIN old : String(old[i].id) # id) => new = old
          /\ OtherTablesKept(t)
    ]_vars

\* C10 witness: a delete removed two records sharing the path id and kept
\* another record.
C10_Witness ==
  /\ last.op = "delete" /\ last.status = 200
  /\ last.req.table \in DOMAIN last.before.data
  /\ LET old == last.before.data[last.req.table]
         new == data[last.req.table]
     IN /\ Len(old) = Len(new) + 2
        /\ Len(new) >= 1
        /\ \E i, j \in DOMAIN old :
             i < j /\ old[i].id = old[j].id /\ String(old[i].id) = last.req.id

\* C20: every update leaves the matched record's id as it was,
\* also when the patch contains an id field.
C20_UpdateKeepsId ==
  [][(last'.op = "update" /\ last'.status = 200) =>
       LET t == last'.req.table
           k == findIndex(data[t], last'.req.id)
       IN data'[t][k].id = data[t][k].id
    ]_vars

-----------------------------------------------------------------------------
(* Further properties of the auth workflow, checked under SpecAuth.        *)

StoreKept ==
  /\ users = last.before.users
  /\ pending = last.before.pending

\* The last request was a register whose admin mail could not be sent.
RegisterMailFailed ==
  /\ last.op = "register" /\ last.status = 500
  /\ ~MissingField(last.req)
  /\ ~FindThrows(last.before.users, last.req.email)

\* C11: register answers 400 when a field is missing and 409 when the users
\* list has an entry with the same email ignoring case; in both cases users
\* and pending stay as they were and no mail is sent; nothing else, a pending
\* draft with the same email included, makes it answer 400 or 409.
C11_RegisterRejections ==
  last.op = "register" =>
    LET missing == MissingField(last.req)
        taken == EmailTaken(last.before.users, last.req.email)
    IN /\ missing => last.status = 400
       /\ (~missing /\ taken) => last.status = 409
       /\ last.status \in {400, 409} =>
            (missing \/ taken) /\ StoreKept /\ last.mail = NoMail

\* C12: forgot answers 404 and changes nothing when no user has the email;
\* otherwise it replaces the password hash of the first such user, and of
\* nothing else, by the hash of a temporary password, whether or not the mail
\* goes out, so that login succeeds with the temporary password and answers
\* 401 with every password the previous hash accepted.
C12_ForgotReplacesHash ==
  last.op = "forgot" =>
    LET old == last.before.users
        email == last.req.email
        i == FirstMatch(old, email)
    IN /\ ~EmailTaken(old, email) => last.status = 404 /\ users = old
       /\ EmailTaken(old, email) =>
            /\ Len(users) = Len(old)
            /\ \A j \in DOMAIN old : j # i => users[j] = old[j]
            /\ [users[i] EXCEPT !.password = old[i].password] = old[i]
            /\ \E tmp \in TmpPasswords :
                 /\ bcryptCompare(tmp, users[i].password)
                 /\ LoginStatuses(users, email, tmp) = {200}
            /\ \A p \in LoginPasswords :
                 bcryptCompare(p, old[i].password) =>
                   LoginStatuses(users, email, p) = {401}
       /\ pending = last.before.pending

\* C15: a register that stores a draft while pending already holds a draft
\* with the same email adds a second draft under a new token and leaves every
\* draft that was there as it was.
C15_SecondRegisterAddsSecondDraft ==
  (/\ last.op = "register"
   /\ last.status = 200 \/ RegisterMailFailed
   /\ \E t \in DOMAIN last.before.pending :
        last.before.pending[t].email = last.req.email) =>
     /\ Cardinality(DOMAIN pending) = Cardinality(DOMAIN last.before.pending) + 1
     /\ \A t \in DOMAIN last.before.pending :
          t \in DOMAIN pending /\ pending[t] = last.before.pending[t]

-----------------------------------------------------------------------------
(* Properties of overlapping record requests, checked under SpecDataRace.  *)

\* C16: create, update and delete write back the collection they read,
\* changed by their own request alone and whatever the store holds by then;
\* two overlapping creates can therefore both answer {ok:true} and leave
\* only one of the two new records stored.
C16_WritesOverwriteUnconditionally ==
  [][\A p \in Procs :
       (inflight[p].pc = "write" /\ inflight'[p].pc = "done") =>
         LET r == inflight[p]
             t == r.req.table
             new == StoredAfter(t)
             Keeps(x) == String(x.id) # r.req.id
         IN /\ inflight'[p].status = 200
            /\ r.op = "create" =>
                 /\ Len(new) = Len(r.read) + 1
                 /\ SubSeq(new, 1, Len(r.read)) = r.read
            /\ r.op = "update" =>
                 /\ Len(new) = Len(r.read)
                 /\ \E k \in DOMAIN new :
                      \A i \in DOMAIN new \ {k} : new[i] = r.read[i]
            /\ r.op = "delete" => new = SelectSeq(r.read, Keeps)
    ]_vars

\* C16 witness: two creates on one table have both answered 200, the later
\* write was made from a collection read before the earlier write, and the
\* store holds one record only.
C16_Witness ==
  /\ \A p \in Procs :
       /\ inflight[p].op = "create" /\ inflight[p].pc = "done"
       /\ inflight[p].status = 200 /\ inflight[p].req.table = "rooms"
  /\ inflight["p1"].req.body # inflight["p2"].req.body
  /\ ~inflight["p1"].stale /\ inflight["p2"].stale
  /\ "rooms" \in DOMAIN data
  /\ Len(data["rooms"]) = 1
  /\ DOMAIN data["rooms"][1] = DOMAIN inflight["p2"].req.body \cup {"id"}

-----------------------------------------------------------------------------
(* Properties of overlapping auth requests, checked under SpecAuthRace.    *)

Active(u) == HasEmail(u) /\ u.approved

\* Slot p takes the step of `op` that leaves the await `pc`.
Leaves(p, op, pc) == Running(p, op, pc) /\ inflight'[p].pc # pc

\* C13: a user that is in the users list and approved is still in it, with
\* the same name and email and still approved, after every step of every
\* register, approve, login and forgot request, however they overlap.
C13_ActiveUserStays ==
  [][\A i \in DOMAIN users :
       Active(users[i]) =>
         \E j \in DOMAIN users' :
           /\ Active(users'[j])
           /\ users'[j].email = users[i].email
           /\ users'[j].name = users[i].name
    ]_vars

\* C14: a draft in pending stays under its token, unchanged, through every
\* step except the step of an approve of that token that deletes it, and a
\* token whose draft was promoted and deleted does not come back.
C14_DraftStaysUntilApproved ==
  [][/\ \A t \in DOMAIN pending :
          \/ t \in DOMAIN pending' /\ pending'[t] = pending[t]
          \/ \E p \in Procs :
               /\ Leaves(p, "approve", "savePending")
               /\ inflight[p].req.token = t
               /\ inflight'[p].status = 200
     /\ \A t \in approvedTokens :
          t \notin DOMAIN pending => t \notin DOMAIN pending'
    ]_vars

\* C19: no approve writes a users list with a draft promoted from a token
\* that an approve has promoted before.
C19_PromotedAtMostOnce ==
  [][\A p \in Procs :
       (Leaves(p, "approve", "saveUsers") /\ users' = inflight[p].local) =>
         inflight[p].req.token \notin approvedTokens
    ]_vars

\* C18: register writes the draft to pending, under the token of its email,
\* in a step before the one that sends the admin mail; the mail step changes
\* neither pending nor users, whether the mail goes out (200) or fails (500);
\* and an approve of a token that is in pending goes on to promote it.
C18_DraftSurvivesMailFailure ==
  [][\A p \in Procs :
       LET r == inflight[p]
           token == jwtSign(r.req.email, now)
       IN
       /\ (Leaves(p, "register", "savePending")
             /\ inflight'[p].pc = "sendMail") =>
            /\ token \in DOMAIN pending'
            /\ pending'[token].email = r.req.email
            /\ pending'[token].name = r.req.name
            /\ bcryptCompare(r.req.password, pending'[token].password)
            /\ ~pending'[token].approved
       /\ Leaves(p, "register", "sendMail") =>
            /\ inflight'[p].status \in {200, 500}
            /\ pending' = pending
            /\ users' = users
       /\ (Free(p) /\ inflight'[p] # r /\ inflight'[p].op = "approve"
             /\ inflight'[p].req.token \in DOMAIN pending) =>
            inflight'[p].pc = "readUsers"
    ]_vars

\* C18 witness: one request at a time, all in one slot: a register has
\* answered 500 because the mail failed, its draft is the one draft in
\* pending, and nothing has been approved.
C18_Witness ==
  /\ inflight["p2"] = Idle
  /\ inflight["p1"] =
       Failed("register", RegisterBody("An", <<"a">>, "abc123"), 500, "sendMail")
  /\ DOMAIN pending = {jwtSign(<<"a">>, now)}
  /\ pending[jwtSign(<<"a">>, now)].email = <<"a">>
  /\ users = <<>>
  /\ approvedTokens = {}

\* C17: approve decides on the pending object alone, appends the promoted
\* draft to the users list it reads whether or not the list holds that user
\* already, and writes users in one step and pending in a later one; a
\* request that stops between the two leaves the promoted user in users and
\* the token in pending.
C17_ApproveUsersBeforePending ==
  [][\A p \in Procs :
       LET r == inflight[p]
           token == r.req.token
           promoted == Spread(GetDraft(r.read, token), [approved |-> TRUE])
       IN
       /\ (Free(p) /\ inflight'[p] # r /\ inflight'[p].op = "approve") =>
            IF HasDraft(pending, inflight'[p].req.token)
               /\ inflight'[p].req.token # RawToken("")
            THEN inflight'[p].pc = "readUsers" /\ inflight'[p].read = pending
            ELSE inflight'[p].pc = "done" /\ inflight'[p].status \in {400, 404}
       /\ (Leaves(p, "approve", "readUsers") /\ inflight'[p].pc = "saveUsers") =>
            inflight'[p].local = Append(users, promoted)
       /\ (Leaves(p, "approve", "saveUsers") /\ inflight'[p].pc = "savePending") =>
            /\ users' = r.local
            /\ pending' = pending
       /\ Leaves(p, "approve", "savePending") =>
            /\ users' = users
            /\ IF inflight'[p].status = 200
               THEN pending' = DeleteDraft(r.read, token)
               ELSE pending' = pending
    ]_vars

\* C17 witness: one request at a time, all in one slot: the token's second
\* approve has answered 200 and users holds the promoted user twice, which
\* takes a first approve that wrote users and stopped before it wrote pending.
C17_Witness ==
  /\ inflight["p2"] = Idle
  /\ inflight["p1"].op = "approve" /\ inflight["p1"].pc = "done"
  /\ inflight["p1"].status = 200
  /\ inflight["p1"].req.token \notin DOMAIN pending
  /\ Len(users) = 2
  /\ users[1] = users[2]
  /\ Active(users[1])
  /\ users[1].email = inflight["p1"].req.token.email

====
